---------------------------- MODULE Spec2Model ----------------------------
(***************************************************************************)
(* qCheck: CRC32 checksum verification of SFV checklists.                  *)
(*                                                                         *)
(* The module models Check (the checklist parser, the worker pool and the  *)
(* verdicts it prints), ChecksumThread (the direct-hash worker) and        *)
(* ChecksumFile.  A run of the pool takes ChecksumFile in one step, as a   *)
(* function of the state of the file; SumSpec follows one call of it       *)
(* statement by statement.                                                 *)
(*                                                                         *)
(* Text is a sequence of one-character strings.  A std::uint32_t is a pair *)
(* <<hi, lo>> of 16-bit halves (value hi * 2^16 + lo), because the model   *)
(* checker's integers are narrower than 32 unsigned bits.                  *)
(***************************************************************************)
EXTENDS Integers, Sequences, FiniteSets, TLC

(***************************************************************************)
(* Bounds of the model.                                                    *)
(***************************************************************************)
\* Longest checklist line drawn from the whole alphabet (ParseSpec).
MaxLineLen == 4
\* Longest run of hexadecimal digits in a long checksum field (ParseSpec).
MaxDigits == 9
\* Most checklist files (or files to hash) given on the command line.
MaxFiles == 2
\* Most lines in all the checklist files of one input together.
MaxLines == 3
\* Most worker threads (Settings.Threads ranges over 0..MaxThreads).
MaxThreads == 2
\* The most bytes of a file whose checksum is followed step by step.
MaxBytes == 3

(***************************************************************************)
(* std::uint32_t as two 16-bit halves.                                     *)
(***************************************************************************)
Half == 256 * 256

U32(hi, lo) == <<hi, lo>>

\* ~0u, the value CheckValue is initialised with.
AllOnes == U32(Half - 1, Half - 1)

Zero32 == U32(0, 0)

(***************************************************************************)
(* std::string / std::string_view operations, 0-based as in the source.    *)
(***************************************************************************)
\* std::string::npos: adding 1 to it wraps around to 0.
Npos == -1

\* CurLine[i]: the character at 0-based index i; index size() reads '\0'.
CharAt(s, i) == IF i < Len(s) THEN s[i + 1] ELSE "\\0"

RECURSIVE LastOf(_, _, _)
\* The greatest 0-based index below n at which s holds c, or Npos.
LastOf(s, c, n) ==
    IF n = 0 THEN Npos
    ELSE IF s[n] = c THEN n - 1
    ELSE LastOf(s, c, n - 1)

\* std::string::find_last_of(c)
FindLastOf(s, c) == LastOf(s, c, Len(s))

\* std::string_view::substr(pos, count); count = Npos takes the rest.
\* pos never exceeds size() here (BreakPos + 1 <= size()).
Substr(s, pos, count) ==
    LET rest == Len(s) - pos
        n    == IF count = Npos \/ count > rest THEN rest ELSE count
    IN  SubSeq(s, pos + 1, pos + n)

(***************************************************************************)
(* std::from_chars<std::uint32_t>(first, last, value, 16)                  *)
(***************************************************************************)
HexDigits ==
    {"0", "1", "2", "3", "4", "5", "6", "7", "8", "9",
     "a", "b", "c", "d", "e", "f", "A", "B", "C", "D", "E", "F"}

\* The value of one base-16 digit, either case.
DigitValue(c) ==
    CASE c = "0" -> 0  [] c = "1" -> 1  [] c = "2" -> 2  [] c = "3" -> 3
      [] c = "4" -> 4  [] c = "5" -> 5  [] c = "6" -> 6  [] c = "7" -> 7
      [] c = "8" -> 8  [] c = "9" -> 9
      [] c \in {"a", "A"} -> 10  [] c \in {"b", "B"} -> 11
      [] c \in {"c", "C"} -> 12  [] c \in {"d", "D"} -> 13
      [] c \in {"e", "E"} -> 14  [] c \in {"f", "F"} -> 15

\* acc * 16 + d in 32 bits: the wrapped value and whether it overflowed.
MulAdd(acc, d) ==
    LET lo == acc[2] * 16 + d
        hi == acc[1] * 16 + (lo \div Half)
    IN  [value |-> U32(hi % Half, lo % Half), overflow |-> hi >= Half]

RECURSIVE FromCharsLoop(_, _, _, _)
\* Consumes the digits of s from 0-based index i on; an overflow is
\* remembered and the remaining digits are still consumed.
FromCharsLoop(s, i, acc, ovf) ==
    IF i < Len(s) /\ s[i + 1] \in HexDigits
    THEN LET r == MulAdd(acc, DigitValue(s[i + 1]))
         IN  FromCharsLoop(s, i + 1, r.value, ovf \/ r.overflow)
    ELSE [ptr |-> i, value |-> acc, overflow |-> ovf]

\* The from_chars_result and the value left in the output argument, which
\* is written only on success.
FromChars(s, old) ==
    LET r == FromCharsLoop(s, 0, Zero32, FALSE)
    IN  IF r.ptr = 0
        THEN [ec |-> "invalid_argument", ptr |-> 0, value |-> old]
        ELSE IF r.overflow
        THEN [ec |-> "result_out_of_range", ptr |-> r.ptr, value |-> old]
        ELSE [ec |-> "ok", ptr |-> r.ptr, value |-> r.value]

(***************************************************************************)
(* std::filesystem::path operations used by Check (POSIX, generic form).   *)
(***************************************************************************)
\* path::parent_path(): the path without its last component.
ParentPath(p) ==
    LET k == FindLastOf(p, "/")
    IN  IF k = Npos THEN <<>>
        ELSE IF k = 0 THEN <<"/">>
        ELSE SubSeq(p, 1, k)

\* path::has_parent_path()
HasParentPath(p) == ParentPath(p) /= <<>>

\* path::operator/=: an absolute right side replaces the left one; a
\* separator is added when the left side ends in a file name.
PathAppend(base, p) ==
    IF Len(p) > 0 /\ p[1] = "/" THEN p
    ELSE IF Len(base) > 0 /\ base[Len(base)] /= "/" THEN base \o <<"/">> \o p
    ELSE base \o p

(***************************************************************************)
(* One iteration of the getline loop of Check on the line CurLine of the   *)
(* checklist CurSfvPath.                                                   *)
(***************************************************************************)
\* CurLine[0] == ';'
IsComment(CurLine) == CharAt(CurLine, 0) = ";"

RECURSIVE FirstOf(_, _, _)
\* The least 0-based index from i on at which s holds c, or Npos.
FirstOf(s, c, i) ==
    IF i >= Len(s) THEN Npos
    ELSE IF s[i + 1] = c THEN i
    ELSE FirstOf(s, c, i + 1)

\* The line split at its first space instead of its last.
MutBreakPos(CurLine) == FirstOf(CurLine, " ", 0)

BreakPos(CurLine) == FindLastOf(CurLine, " ")

PathString(CurLine) == Substr(CurLine, 0, BreakPos(CurLine))

\* BreakPos + 1 is computed in std::size_t: Npos + 1 is 0.
CheckString(CurLine) == Substr(CurLine, BreakPos(CurLine) + 1, Npos)

ParseResult(CurLine) == FromChars(CheckString(CurLine), AllOnes)

\* The test that discards a line whose checksum did not parse.
ParseFailed(result) == result.ec /= "ok"

\* A path resolved against the working directory whatever the checklist.
MutFilePath(CurSfvPath, CurLine) == PathAppend(<<".">>, PathString(CurLine))

FilePath(CurSfvPath, CurLine) ==
    PathAppend(IF HasParentPath(CurSfvPath) THEN ParentPath(CurSfvPath)
                                            ELSE <<".">>,
               PathString(CurLine))

\* A CheckEntry.
CheckEntry(path, sum) == [FilePath |-> path, Checksum |-> sum]

\* What the iteration appends to Checkqueue: nothing or one entry.
LineEntries(CurSfvPath, CurLine) ==
    IF IsComment(CurLine) THEN <<>>
    ELSE IF ParseFailed(ParseResult(CurLine)) THEN <<>>
    ELSE <<CheckEntry(FilePath(CurSfvPath, CurLine),
                      ParseResult(CurLine).value)>>

(***************************************************************************)
(* CRC::Checksum of <CRC/CRC32.hpp>: the standard reflected CRC-32,        *)
(* polynomial 0xEDB88320, one's complement of the seed on entry and of the *)
(* register on exit, seed 0 by default.                                    *)
(***************************************************************************)
RECURSIVE Xor(_, _, _)
\* The exclusive or of the low n bits of a and b.
Xor(a, b, n) ==
    IF n = 0 THEN 0
    ELSE ((a + b) % 2) + 2 * Xor(a \div 2, b \div 2, n - 1)

Xor32(x, y) == U32(Xor(x[1], y[1], 16), Xor(x[2], y[2], 16))

Not32(x) == U32(Half - 1 - x[1], Half - 1 - x[2])

\* x >> 1.
Shr1(x) == U32(x[1] \div 2, (x[2] \div 2) + (x[1] % 2) * (Half \div 2))

\* 0xEDB88320.
Polynomial == U32(60856, 33568)

RECURSIVE ShiftBits(_, _)
\* n steps of the bitwise division by the polynomial.
ShiftBits(crc, n) ==
    IF n = 0 THEN crc
    ELSE ShiftBits(IF crc[2] % 2 = 1 THEN Xor32(Shr1(crc), Polynomial)
                   ELSE Shr1(crc), n - 1)

\* x >> 8.
Shr8(x) == U32(x[1] \div 256, (x[2] \div 256) + (x[1] % 256) * 256)

\* The lookup table: the remainder of each byte value.
Table == [b \in 0..255 |-> ShiftBits(U32(0, b), 8)]

\* The register after one more byte.
UpdateByte(crc, byte) ==
    Xor32(Table[Xor(crc[2] % 256, byte, 8)], Shr8(crc))

RECURSIVE UpdateCRC(_, _, _)
\* The register after the bytes of Data from the i-th on.
UpdateCRC(crc, Data, i) ==
    IF i > Len(Data) THEN crc
    ELSE UpdateCRC(UpdateByte(crc, Data[i]), Data, i + 1)

\* CRC::Checksum(Data, InitialValue).
Checksum(Data, InitialValue) ==
    Not32(UpdateCRC(Not32(InitialValue), Data, 1))

(***************************************************************************)
(* The files the program reads.                                            *)
(***************************************************************************)
\* std::optional<std::uint32_t>: no element, or the one value.
NullOpt == <<>>

Some(v) == <<v>>

HasValue(opt) == Len(opt) = 1

\* A checklist that std::ifstream cannot open, and one that holds lines.
Unopenable == [Openable |-> FALSE, Lines |-> <<>>]

Text(lines) == [Openable |-> TRUE, Lines |-> lines]

\* States of a file to be checksummed: file_size fails, open fails, or the
\* file is read and its contents have the given CRC32.
Missing == [kind |-> "missing"]

Locked == [kind |-> "locked"]

Data(crc) == [kind |-> "data", crc |-> crc]

\* ChecksumFile(Path) on the files of disk: no value when the size query or
\* the open fails, the CRC32 of the contents otherwise.
ChecksumFile(disk, Path) ==
    IF Path \notin DOMAIN disk THEN NullOpt
    ELSE IF disk[Path].kind = "missing" THEN NullOpt
    ELSE IF disk[Path].kind = "locked" THEN NullOpt
    ELSE Some(disk[Path].crc)

(***************************************************************************)
(* Inputs the specifications draw from.                                    *)
(***************************************************************************)
\* All texts over the characters of S of length at most n.
StringsOf(S, n) == UNION {[1..k -> S] : k \in 0..n}

\* Comment mark, separator, hexadecimal digits of both cases, a character
\* that is no digit, and a carriage return.
Alphabet == {";", " ", "1", "A", "a", "Z", "\r"}

\* Checksum fields long enough to exceed 32 bits, bare or after a path,
\* with and without a trailing character that is no digit.
LongLines ==
    {pre \o run \o suf :
        pre \in {<<>>, <<"x", " ">>},
        run \in StringsOf({"0", "F"}, MaxDigits),
        suf \in {<<>>, <<"Z">>}}

AllLines == StringsOf(Alphabet, MaxLineLen) \cup LongLines

\* Lines of the multi-file inputs: two entries, a comment, a bad checksum.
SampleLines ==
    {<<"a", " ", "1">>, <<"b", " ", "0">>, <<";", "c">>, <<"c", " ", "Z">>}

\* Lines of the inputs of a whole run: two entries and a bad checksum.
RunLines == {<<"a", " ", "1">>, <<"b", " ", "0">>, <<"c", " ", "Z">>}

IndexChars == <<"1", "2", "3", "4", "5", "6", "7", "8", "9">>

\* The path of the i-th checklist: "l<i>" or "<dir>/l<i>".
SfvPath(dir, i) ==
    IF dir = <<>> THEN <<"l", IndexChars[i]>>
    ELSE dir \o <<"/", "l", IndexChars[i]>>

RECURSIVE FileContents(_, _, _)
\* Sequences of at most k checklist contents (Unopenable, or lines drawn
\* from lines) holding at most n lines in all.
FileContents(k, n, lines) ==
    IF k = 0 THEN {<<>>}
    ELSE {<<>>} \cup
         {<<f>> \o rest :
             f \in {Unopenable}, rest \in FileContents(k - 1, n, lines)} \cup
         UNION {{<<f>> \o rest :
                    f \in {Text(l) : l \in [1..m -> lines]},
                    rest \in FileContents(k - 1, n - m, lines)} : m \in 0..n}

\* The checklists named on the command line, each with what it holds.
Checklists(dir, contents) ==
    [i \in 1..Len(contents) |->
        [Path |-> SfvPath(dir, i), Openable |-> contents[i].Openable,
         File |-> contents[i].Lines]]

\* Checklist paths, bare and in an absolute, the root and a relative
\* directory: "list.sfv", "/data/list.sfv", "/list.sfv", "d/e/list.sfv",
\* "more.sfv".
MixedSfvPaths ==
    <<<<"l", "i", "s", "t", ".", "s", "f", "v">>,
      <<"/", "d", "a", "t", "a", "/", "l", "i", "s", "t", ".", "s", "f", "v">>,
      <<"/", "l", "i", "s", "t", ".", "s", "f", "v">>,
      <<"d", "/", "e", "/", "l", "i", "s", "t", ".", "s", "f", "v">>,
      <<"m", "o", "r", "e", ".", "s", "f", "v">>>>

\* Lines that name files: "photo.jpg 1A2B3C4D", "sub/a b 0", "p 1".
PathLines ==
    {<<"p", "h", "o", "t", "o", ".", "j", "p", "g", " ", "1", "A", "2", "B",
      "3", "C", "4", "D">>,
     <<"s", "u", "b", "/", "a", " ", "b", " ", "0">>,
     <<"p", " ", "1">>}

\* The checklists at the paths of MixedSfvPaths from the one after the
\* k-th on.
MixedChecklists(k, contents) ==
    [i \in 1..Len(contents) |->
        [Path |-> MixedSfvPaths[k + i], Openable |-> contents[i].Openable,
         File |-> contents[i].Lines]]

\* The files that entries of the run's checklists name.
DataPaths == {<<".", "/", "a">>, <<".", "/", "b">>}

\* A file is missing, unreadable, or holds contents whose CRC32 is 0.
FileStates == {Missing, Locked, Data(Zero32)}

\* Directories the checklists are given in: none (a bare name) or "d".
Dirs == {<<>>, <<"d">>}

(***************************************************************************)
(* State.                                                                  *)
(***************************************************************************)
VARIABLES
    CheckMode,    \* Settings.Check
    Threads,      \* Settings.Threads
    Pending,      \* Settings.InputFiles still to be read: the checklists
                  \* from the current one on, the current one holding the
                  \* lines getline has not returned yet
    Disk,         \* the files to checksum: path -> state
    MainPC,       \* where the main thread is
    OpenFailed,   \* history: a checklist could not be opened
    Checkqueue,   \* the entries parsed so far
    QueueLock,    \* the cursor of Check
    FileList,     \* the paths ChecksumThread works through
    FileIndex,    \* the cursor of ChecksumThread
    NumWorkers,   \* Workers.size(): threads started so far
    Joined,       \* threads joined so far
    WorkerPC,     \* where each worker is
    EntryIndex,   \* each worker's EntryIndex
    CurSum,       \* each worker's CurSum (CRC32 in ChecksumThread)
    Reported,     \* stdout: job index -> the result lines printed for it
    Ret,          \* the status Check returned
    FileAtPath,   \* one call of ChecksumFile: the file that Path names
    SumPC,        \* where the call is
    FileSize,     \* its FileSize
    FileHandle,   \* its FileHandle
    FileMap,      \* its FileMap
    Buffer,       \* the bytes the last read put in its Buffer
    ReadCount,    \* its ReadCount
    CRC32,        \* its CRC32
    Offset,       \* the file offset of the descriptor
    Handles,      \* the descriptors the process has open
    Mappings,     \* the mappings the process holds
    Closes,       \* history: the descriptors passed to close
    Result        \* the value the call returned

\* The state of one call of ChecksumFile.
engineVars ==
    <<FileAtPath, SumPC, FileSize, FileHandle, FileMap, Buffer, ReadCount,
      CRC32, Offset, Handles, Mappings, Closes, Result>>

\* The variables of a run, which a call of ChecksumFile leaves alone.
runVars ==
    <<CheckMode, Threads, Pending, Disk, MainPC, OpenFailed, Checkqueue,
      QueueLock, FileList, FileIndex, NumWorkers, Joined, WorkerPC,
      EntryIndex, CurSum, Reported, Ret>>

vars == <<runVars, engineVars>>

settingsVars == <<CheckMode, Threads, Disk, FileList>>

workerVars ==
    <<QueueLock, FileIndex, WorkerPC, EntryIndex, CurSum, Reported>>

EXIT_SUCCESS == 0

EXIT_FAILURE == 1

\* Ret before Check has returned: no exit status.
NoStatus == 0 - 1

\* MAP_FAILED, and the descriptor open returns on failure.
MAP_FAILED == 0 - 1

\* A file as ChecksumFile meets it: whether file_size, open and mmap
\* succeed on it, whether a read of it can fail, and its bytes.
FileOf(sized, openable, mappable, faulty, bytes) ==
    [Sized |-> sized, Openable |-> openable, Mappable |-> mappable,
     Faulty |-> faulty, Bytes |-> bytes]

\* The locals of ChecksumFile before the call has set them.
Locals(file, pc) ==
    /\ FileAtPath = file
    /\ SumPC = pc
    /\ FileSize = 0
    /\ FileHandle = 0 - 1
    /\ FileMap = MAP_FAILED
    /\ Buffer = <<>>
    /\ ReadCount = 0
    /\ CRC32 = Zero32
    /\ Offset = 0
    /\ Handles = {}
    /\ Mappings = {}
    /\ Closes = <<>>
    /\ Result = NullOpt

\* No call of ChecksumFile is followed step by step.
NoCall == Locals(FileOf(FALSE, FALSE, FALSE, FALSE, <<>>), "idle")

\* The state after construction, for given settings and files.
Start(check, threads, inputs, files, disk) ==
    /\ CheckMode = check
    /\ Threads = threads
    /\ Pending = inputs
    /\ Disk = disk
    /\ MainPC = IF check THEN "open" ELSE "hash"
    /\ OpenFailed = FALSE
    /\ Checkqueue = <<>>
    /\ QueueLock = 0
    /\ FileList = files
    /\ FileIndex = 0
    /\ NumWorkers = 0
    /\ Joined = 0
    /\ WorkerPC = [w \in 1..threads |-> "unborn"]
    /\ EntryIndex = [w \in 1..threads |-> 0]
    /\ CurSum = [w \in 1..threads |-> NullOpt]
    /\ Reported = <<>>
    /\ Ret = NoStatus

\* A whole run on one of disks: Check with any worker count, which it does
\* not validate, or direct-hash mode, whose caller passes on a worker count
\* of at least one.
RunInit(disks) ==
    /\ NoCall
    /\ \E disk \in disks :
          \/ \E threads \in 0..MaxThreads,
                c \in FileContents(MaxFiles, MaxLines, RunLines) :
                Start(TRUE, threads, Checklists(<<>>, c), <<>>, disk)
          \/ \E threads \in 1..MaxThreads,
                files \in StringsOf(DataPaths, MaxFiles) :
                Start(FALSE, threads, <<>>, files, disk)

Init == RunInit([DataPaths -> FileStates])

\* The disk of the runs checked for termination: one file readable, the
\* other missing.
FairDisks ==
    {[p \in DataPaths |->
        IF p = <<".", "/", "a">> THEN Data(Zero32) ELSE Missing]}

FairInit == RunInit(FairDisks)

\* The checklist parser alone: one line drawn from all lines, several
\* checklists of sample lines, or checklists in different directories.
ParseInit ==
    /\ NoCall
    /\ \E dir \in Dirs :
          \/ \E line \in AllLines :
                Start(TRUE, 1, Checklists(dir, <<Text(<<line>>)>>), <<>>,
                      [p \in DataPaths |-> Missing])
          \/ \E c \in FileContents(MaxFiles, MaxLines, SampleLines) :
                Start(TRUE, 1, Checklists(dir, c), <<>>,
                      [p \in DataPaths |-> Missing])
          \/ \E c \in FileContents(MaxFiles, MaxLines, PathLines),
                k \in 0..(Len(MixedSfvPaths) - MaxFiles) :
                Start(TRUE, 1, MixedChecklists(k, c), <<>>,
                      [p \in DataPaths |-> Missing])

\* The byte values of the files checksummed step by step, and the most
\* bytes such a file holds.
ByteValues == {0, 49, 255}

\* The ASCII bytes "123456789".
TestVector == <<49, 50, 51, 52, 53, 54, 55, 56, 57>>

\* One call of ChecksumFile, on a file of a few bytes in every condition
\* or on the test vector.
SumInit ==
    /\ Start(FALSE, 0, <<>>, <<>>, [p \in DataPaths |-> Missing])
    /\ \E sized, openable, mappable, faulty \in BOOLEAN,
          bytes \in StringsOf(ByteValues, MaxBytes) \cup {TestVector} :
          Locals(FileOf(sized, openable, mappable, faulty, bytes), "size")

(***************************************************************************)
(* Check: reading the checklists.                                          *)
(***************************************************************************)
\* A loop head that skips a checklist it cannot open and goes on.
MutOpenNext ==
    /\ MainPC = "open"
    /\ IF Pending = <<>>
       THEN /\ MainPC' = "spawn"
            /\ UNCHANGED <<OpenFailed, Pending>>
       ELSE IF ~Head(Pending).Openable
       THEN /\ OpenFailed' = TRUE
            /\ Pending' = Tail(Pending)
            /\ UNCHANGED MainPC
       ELSE /\ MainPC' = "read"
            /\ UNCHANGED <<OpenFailed, Pending>>
    /\ UNCHANGED engineVars
    /\ UNCHANGED <<settingsVars, workerVars, Checkqueue, NumWorkers, Joined,
                   Ret>>

\* The head of the for loop over InputFiles: the loop ends, or the next
\* checklist is opened, and a failure to open it returns EXIT_FAILURE.
OpenNext ==
    /\ MainPC = "open"
    /\ IF Pending = <<>>
       THEN /\ MainPC' = "spawn"
            /\ UNCHANGED <<OpenFailed, Ret>>
       ELSE IF ~Head(Pending).Openable
       THEN /\ MainPC' = "returned"
            /\ OpenFailed' = TRUE
            /\ Ret' = EXIT_FAILURE
       ELSE /\ MainPC' = "read"
            /\ UNCHANGED <<OpenFailed, Ret>>
    /\ UNCHANGED engineVars
    /\ UNCHANGED <<settingsVars, workerVars, Pending, Checkqueue,
                   NumWorkers, Joined>>

\* One getline: at the end of the file the loop goes on to the next
\* checklist; otherwise the line is parsed and its entry, if any, queued.
GetLine ==
    /\ MainPC = "read"
    /\ LET CurSfv == Head(Pending)
       IN  IF CurSfv.File = <<>>
           THEN /\ Pending' = Tail(Pending)
                /\ MainPC' = "open"
                /\ UNCHANGED Checkqueue
           ELSE /\ Checkqueue' =
                      Checkqueue \o LineEntries(CurSfv.Path, Head(CurSfv.File))
                /\ Pending' =
                      <<[CurSfv EXCEPT !.File = Tail(@)]>> \o Tail(Pending)
                /\ UNCHANGED MainPC
    /\ UNCHANGED engineVars
    /\ UNCHANGED <<settingsVars, workerVars, OpenFailed, NumWorkers,
                   Joined, Ret>>

(***************************************************************************)
(* Check: the worker pool.                                                 *)
(***************************************************************************)
\* std::atomic<std::size_t>::fetch_add(1): the value read and the value
\* stored, in one atomic step.
\* fetch_add written as an increment by two.
MutFetchAddSkip(counter) == [old |-> counter, new |-> counter + 2]

\* fetch_add written as an increment that returns the new value.
MutFetchAdd(counter) == [old |-> counter + 1, new |-> counter + 1]

FetchAdd(counter) == [old |-> counter, new |-> counter + 1]

\* EntryIndex >= Checkqueue.size(), the test that ends a worker.
OutOfRange(index, size) == index >= size

\* The result lines printed so far for job index i.
Lines(i) == IF i \in DOMAIN Reported THEN Reported[i] ELSE <<>>

\* Reported with one more line printed for job index i.
PrintLine(i, line) == (i :> Append(Lines(i), line)) @@ Reported

\* The loop that starts the workers; a started worker runs at once.
SpawnLoop ==
    /\ MainPC = "spawn"
    /\ IF NumWorkers < Threads
       THEN /\ NumWorkers' = NumWorkers + 1
            /\ WorkerPC' = [WorkerPC EXCEPT ![NumWorkers + 1] = "claim"]
            /\ UNCHANGED MainPC
       ELSE /\ MainPC' = "join"
            /\ UNCHANGED <<NumWorkers, WorkerPC>>
    /\ UNCHANGED engineVars
    /\ UNCHANGED <<settingsVars, Pending, OpenFailed, Checkqueue, QueueLock,
                   FileIndex, Joined, EntryIndex, CurSum, Reported, Ret>>

\* A join loop that stops one worker short.
MutJoinCount == Threads - 1

\* The number of workers the join loop waits for.
JoinCount == Threads

\* A return whose status reports entries that did not verify.
MutJoinLoop ==
    /\ MainPC = "join"
    /\ IF Joined < JoinCount
       THEN /\ WorkerPC[Joined + 1] = "exited"
            /\ Joined' = Joined + 1
            /\ UNCHANGED <<MainPC, Ret>>
       ELSE /\ MainPC' = "returned"
            /\ Ret' = IF \E i \in DOMAIN Reported :
                           \E k \in 1..Len(Reported[i]) :
                              Reported[i][k].Verdict /= "OK"
                      THEN EXIT_FAILURE ELSE EXIT_SUCCESS
            /\ UNCHANGED Joined
    /\ UNCHANGED engineVars
    /\ UNCHANGED <<settingsVars, workerVars, Pending, OpenFailed, Checkqueue,
                   NumWorkers>>

\* The loop that joins the workers in the order they were started, and the
\* return that follows it.
JoinLoop ==
    /\ MainPC = "join"
    /\ IF Joined < JoinCount
       THEN /\ WorkerPC[Joined + 1] = "exited"
            /\ Joined' = Joined + 1
            /\ UNCHANGED <<MainPC, Ret>>
       ELSE /\ MainPC' = "returned"
            /\ Ret' = EXIT_SUCCESS
            /\ UNCHANGED Joined
    /\ UNCHANGED engineVars
    /\ UNCHANGED <<settingsVars, workerVars, Pending, OpenFailed, Checkqueue,
                   NumWorkers>>

\* A comparison against the checksum with 0 standing in for "no value".
MutVerdict(CurEntry, sum) ==
    LET got == IF HasValue(sum) THEN sum[1] ELSE Zero32
    IN  IF CurEntry.Checksum = got THEN "OK"
        ELSE IF HasValue(sum) THEN "FAIL" ELSE "ERROR"

\* The verdict printed for an entry whose file has the checksum CurSum.
Verdict(CurEntry, sum) ==
    IF HasValue(sum)
    THEN LET Valid == Some(CurEntry.Checksum) = sum
         IN  IF Valid THEN "OK" ELSE "FAIL"
    ELSE "ERROR"

\* The worker claims an index and leaves when it is out of range.
Claim(w) ==
    /\ CheckMode
    /\ WorkerPC[w] = "claim"
    /\ LET r == FetchAdd(QueueLock)
       IN  /\ QueueLock' = r.new
           /\ EntryIndex' = [EntryIndex EXCEPT ![w] = r.old]
           /\ WorkerPC' =
                 [WorkerPC EXCEPT
                     ![w] = IF OutOfRange(r.old, Len(Checkqueue))
                            THEN "exited" ELSE "sum"]
    /\ UNCHANGED engineVars
    /\ UNCHANGED <<settingsVars, Pending, MainPC, OpenFailed, Checkqueue,
                   FileIndex, NumWorkers, Joined, CurSum, Reported, Ret>>

\* A worker that reads the cursor again to find the entry it works on.
MutSum(w) ==
    /\ CheckMode
    /\ WorkerPC[w] = "sum"
    /\ LET Last == IF QueueLock < Len(Checkqueue) THEN QueueLock
                   ELSE Len(Checkqueue)
           CurEntry == Checkqueue[Last]
       IN  CurSum' =
              [CurSum EXCEPT ![w] = ChecksumFile(Disk, CurEntry.FilePath)]
    /\ WorkerPC' = [WorkerPC EXCEPT ![w] = "report"]
    /\ UNCHANGED engineVars
    /\ UNCHANGED <<settingsVars, Pending, MainPC, OpenFailed, Checkqueue,
                   QueueLock, FileIndex, NumWorkers, Joined, EntryIndex,
                   Reported, Ret>>

\* The worker checksums the file of the entry it claimed.
Sum(w) ==
    /\ CheckMode
    /\ WorkerPC[w] = "sum"
    /\ LET CurEntry == Checkqueue[EntryIndex[w] + 1]
       IN  CurSum' =
              [CurSum EXCEPT ![w] = ChecksumFile(Disk, CurEntry.FilePath)]
    /\ WorkerPC' = [WorkerPC EXCEPT ![w] = "report"]
    /\ UNCHANGED engineVars
    /\ UNCHANGED <<settingsVars, Pending, MainPC, OpenFailed, Checkqueue,
                   QueueLock, FileIndex, NumWorkers, Joined, EntryIndex,
                   Reported, Ret>>

\* A worker that gives up when the file of an entry cannot be checksummed.
MutReport(w) ==
    /\ CheckMode
    /\ WorkerPC[w] = "report"
    /\ LET CurEntry == Checkqueue[EntryIndex[w] + 1]
       IN  Reported' =
              PrintLine(EntryIndex[w],
                    [Worker |-> w,
                     Path |-> CurEntry.FilePath,
                     Expected |-> CurEntry.Checksum,
                     Sum |-> CurSum[w],
                     Verdict |-> Verdict(CurEntry, CurSum[w])])
    /\ WorkerPC' =
          [WorkerPC EXCEPT
              ![w] = IF HasValue(CurSum[w]) THEN "claim" ELSE "exited"]
    /\ CurSum' = [CurSum EXCEPT ![w] = NullOpt]
    /\ UNCHANGED engineVars
    /\ UNCHANGED <<settingsVars, Pending, MainPC, OpenFailed, Checkqueue,
                   QueueLock, FileIndex, NumWorkers, Joined, EntryIndex, Ret>>

\* The worker prints the entry's result line and goes back to claiming.
Report(w) ==
    /\ CheckMode
    /\ WorkerPC[w] = "report"
    /\ LET CurEntry == Checkqueue[EntryIndex[w] + 1]
       IN  Reported' =
              PrintLine(EntryIndex[w],
                    [Worker |-> w,
                     Path |-> CurEntry.FilePath,
                     Expected |-> CurEntry.Checksum,
                     Sum |-> CurSum[w],
                     Verdict |-> Verdict(CurEntry, CurSum[w])])
    /\ CurSum' = [CurSum EXCEPT ![w] = NullOpt]
    /\ WorkerPC' = [WorkerPC EXCEPT ![w] = "claim"]
    /\ UNCHANGED engineVars
    /\ UNCHANGED <<settingsVars, Pending, MainPC, OpenFailed, Checkqueue,
                   QueueLock, FileIndex, NumWorkers, Joined, EntryIndex, Ret>>

(***************************************************************************)
(* Direct-hash mode: ChecksumThread, and the caller that runs Threads of   *)
(* them over the input paths with a cursor that starts at zero.            *)
(***************************************************************************)
HashSpawn ==
    /\ MainPC = "hash"
    /\ IF NumWorkers < Threads
       THEN /\ NumWorkers' = NumWorkers + 1
            /\ WorkerPC' = [WorkerPC EXCEPT ![NumWorkers + 1] = "claim"]
            /\ UNCHANGED MainPC
       ELSE /\ MainPC' = "hashjoin"
            /\ UNCHANGED <<NumWorkers, WorkerPC>>
    /\ UNCHANGED engineVars
    /\ UNCHANGED <<settingsVars, Pending, OpenFailed, Checkqueue, QueueLock,
                   FileIndex, Joined, EntryIndex, CurSum, Reported, Ret>>

HashJoin ==
    /\ MainPC = "hashjoin"
    /\ IF Joined < Threads
       THEN /\ WorkerPC[Joined + 1] = "exited"
            /\ Joined' = Joined + 1
            /\ UNCHANGED <<MainPC, Ret>>
       ELSE /\ MainPC' = "returned"
            /\ Ret' = EXIT_SUCCESS
            /\ UNCHANGED Joined
    /\ UNCHANGED engineVars
    /\ UNCHANGED <<settingsVars, workerVars, Pending, OpenFailed, Checkqueue,
                   NumWorkers>>

ThreadClaim(w) ==
    /\ ~CheckMode
    /\ WorkerPC[w] = "claim"
    /\ LET r == FetchAdd(FileIndex)
       IN  /\ FileIndex' = r.new
           /\ EntryIndex' = [EntryIndex EXCEPT ![w] = r.old]
           /\ WorkerPC' =
                 [WorkerPC EXCEPT
                     ![w] = IF OutOfRange(r.old, Len(FileList))
                            THEN "exited" ELSE "sum"]
    /\ UNCHANGED engineVars
    /\ UNCHANGED <<settingsVars, Pending, MainPC, OpenFailed, Checkqueue,
                   QueueLock, NumWorkers, Joined, CurSum, Reported, Ret>>

ThreadSum(w) ==
    /\ ~CheckMode
    /\ WorkerPC[w] = "sum"
    /\ LET CurPath == FileList[EntryIndex[w] + 1]
       IN  CurSum' = [CurSum EXCEPT ![w] = ChecksumFile(Disk, CurPath)]
    /\ WorkerPC' = [WorkerPC EXCEPT ![w] = "report"]
    /\ UNCHANGED engineVars
    /\ UNCHANGED <<settingsVars, Pending, MainPC, OpenFailed, Checkqueue,
                   QueueLock, FileIndex, NumWorkers, Joined, EntryIndex,
                   Reported, Ret>>

\* The line printed for a path: its checksum, or ERROR.
HashLine(sum) == IF HasValue(sum) THEN "CRC" ELSE "ERROR"

ThreadReport(w) ==
    /\ ~CheckMode
    /\ WorkerPC[w] = "report"
    /\ Reported' =
          PrintLine(EntryIndex[w],
                [Worker |-> w,
                 Path |-> FileList[EntryIndex[w] + 1],
                 Expected |-> NullOpt,
                 Sum |-> CurSum[w],
                 Verdict |-> HashLine(CurSum[w])])
    /\ CurSum' = [CurSum EXCEPT ![w] = NullOpt]
    /\ WorkerPC' = [WorkerPC EXCEPT ![w] = "claim"]
    /\ UNCHANGED engineVars
    /\ UNCHANGED <<settingsVars, Pending, MainPC, OpenFailed, Checkqueue,
                   QueueLock, FileIndex, NumWorkers, Joined, EntryIndex, Ret>>

(***************************************************************************)
(* ChecksumFile, step by step.                                             *)
(***************************************************************************)
\* Buffer.size().
BufferSize == 4096

\* The descriptor open returns, and the address mmap returns.
NewHandle == 3

NewMap == 1

Min(a, b) == IF a < b THEN a ELSE b

\* What a read at the file offset can return: a count of bytes up to the
\* size of the buffer and the end of the file, possibly short, 0 at the end
\* of the file, -1 on an error.
ReadOutcomes ==
    LET left == Len(FileAtPath.Bytes) - Offset
    IN  (IF left = 0 THEN {0} ELSE 1..Min(BufferSize, left))
           \cup (IF FileAtPath.Faulty THEN {0 - 1} ELSE {})

\* file_size: on an error the call returns no value.
FileSizeQuery ==
    /\ SumPC = "size"
    /\ IF FileAtPath.Sized
       THEN /\ FileSize' = Len(FileAtPath.Bytes)
            /\ SumPC' = "open"
            /\ UNCHANGED Result
       ELSE /\ Result' = NullOpt
            /\ SumPC' = "returned"
            /\ UNCHANGED FileSize
    /\ UNCHANGED runVars
    /\ UNCHANGED <<FileAtPath, FileHandle, FileMap, Buffer, ReadCount, CRC32,
                   Offset, Handles, Mappings, Closes>>

\* open: on -1 the call returns no value.
OpenFile ==
    /\ SumPC = "open"
    /\ IF FileAtPath.Openable
       THEN /\ FileHandle' = NewHandle
            /\ Handles' = Handles \cup {NewHandle}
            /\ SumPC' = "map"
            /\ UNCHANGED Result
       ELSE /\ FileHandle' = 0 - 1
            /\ Result' = NullOpt
            /\ SumPC' = "returned"
            /\ UNCHANGED Handles
    /\ UNCHANGED runVars
    /\ UNCHANGED <<FileAtPath, FileSize, FileMap, Buffer, ReadCount, CRC32,
                   Offset, Mappings, Closes>>

\* An mmap whose failure ends the call with no value.
MutMapFile ==
    /\ SumPC = "map"
    /\ IF FileAtPath.Mappable /\ FileSize > 0
       THEN /\ FileMap' = NewMap
            /\ Mappings' = Mappings \cup {<<NewMap, FileSize>>}
            /\ SumPC' = "span"
            /\ UNCHANGED <<Handles, Closes, Result>>
       ELSE /\ FileMap' = MAP_FAILED
            /\ Handles' = Handles \ {FileHandle}
            /\ Closes' = Append(Closes, FileHandle)
            /\ Result' = NullOpt
            /\ SumPC' = "returned"
            /\ UNCHANGED Mappings
    /\ UNCHANGED runVars
    /\ UNCHANGED <<FileAtPath, FileSize, FileHandle, Buffer, ReadCount,
                   CRC32, Offset>>

\* mmap of FileSize bytes, which fails for a length of 0, and the test of
\* its result that chooses between the mapped path and the reads.
MapFile ==
    /\ SumPC = "map"
    /\ IF FileAtPath.Mappable /\ FileSize > 0
       THEN /\ FileMap' = NewMap
            /\ Mappings' = Mappings \cup {<<NewMap, FileSize>>}
            /\ SumPC' = "span"
       ELSE /\ FileMap' = MAP_FAILED
            /\ SumPC' = "read"
            /\ UNCHANGED Mappings
    /\ UNCHANGED runVars
    /\ UNCHANGED <<FileAtPath, FileSize, FileHandle, Buffer, ReadCount,
                   CRC32, Offset, Handles, Closes, Result>>

\* The mapped path: one checksum over the FileSize mapped bytes.
ChecksumSpan ==
    /\ SumPC = "span"
    /\ LET FileData == SubSeq(FileAtPath.Bytes, 1, FileSize)
       IN  CRC32' = Checksum(FileData, Zero32)
    /\ SumPC' = "unmap"
    /\ UNCHANGED runVars
    /\ UNCHANGED <<FileAtPath, FileSize, FileHandle, FileMap, Buffer,
                   ReadCount, Offset, Handles, Mappings, Closes, Result>>

\* munmap(FileMap, FileSize).
Unmap ==
    /\ SumPC = "unmap"
    /\ Mappings' = Mappings \ {<<FileMap, FileSize>>}
    /\ SumPC' = "close"
    /\ UNCHANGED runVars
    /\ UNCHANGED <<FileAtPath, FileSize, FileHandle, FileMap, Buffer,
                   ReadCount, CRC32, Offset, Handles, Closes, Result>>

\* One read into Buffer, before the loop or at the end of its body.
ReadChunk ==
    /\ SumPC = "read"
    /\ \E count \in ReadOutcomes :
          /\ ReadCount' = count
          /\ IF count > 0
             THEN /\ Buffer' =
                        SubSeq(FileAtPath.Bytes, Offset + 1, Offset + count)
                  /\ Offset' = Offset + count
             ELSE UNCHANGED <<Buffer, Offset>>
    /\ SumPC' = "loop"
    /\ UNCHANGED runVars
    /\ UNCHANGED <<FileAtPath, FileSize, FileHandle, FileMap, CRC32,
                   Handles, Mappings, Closes, Result>>

\* A loop body that checksums each chunk on its own.
MutChecksumChunk ==
    /\ SumPC = "loop"
    /\ IF ReadCount > 0
       THEN /\ CRC32' = Checksum(SubSeq(Buffer, 1, ReadCount), Zero32)
            /\ SumPC' = "read"
       ELSE /\ SumPC' = "close"
            /\ UNCHANGED CRC32
    /\ UNCHANGED runVars
    /\ UNCHANGED <<FileAtPath, FileSize, FileHandle, FileMap, Buffer,
                   ReadCount, Offset, Handles, Mappings, Closes, Result>>

\* The test of the while loop and the first statement of its body: the
\* chunk read is checksummed with the running CRC32 as the seed.
ChecksumChunk ==
    /\ SumPC = "loop"
    /\ IF ReadCount > 0
       THEN /\ CRC32' = Checksum(SubSeq(Buffer, 1, ReadCount), CRC32)
            /\ SumPC' = "read"
       ELSE /\ SumPC' = "close"
            /\ UNCHANGED CRC32
    /\ UNCHANGED runVars
    /\ UNCHANGED <<FileAtPath, FileSize, FileHandle, FileMap, Buffer,
                   ReadCount, Offset, Handles, Mappings, Closes, Result>>

\* A close that only the path of the reads reaches.
MutCloseFile ==
    /\ SumPC = "close"
    /\ IF FileMap = MAP_FAILED
       THEN /\ Handles' = Handles \ {FileHandle}
            /\ Closes' = Append(Closes, FileHandle)
       ELSE UNCHANGED <<Handles, Closes>>
    /\ SumPC' = "return"
    /\ UNCHANGED runVars
    /\ UNCHANGED <<FileAtPath, FileSize, FileHandle, FileMap, Buffer,
                   ReadCount, CRC32, Offset, Mappings, Result>>

\* close(FileHandle).
CloseFile ==
    /\ SumPC = "close"
    /\ Handles' = Handles \ {FileHandle}
    /\ Closes' = Append(Closes, FileHandle)
    /\ SumPC' = "return"
    /\ UNCHANGED runVars
    /\ UNCHANGED <<FileAtPath, FileSize, FileHandle, FileMap, Buffer,
                   ReadCount, CRC32, Offset, Mappings, Result>>

\* A return that gives no value when the last read failed.
MutReturnCRC ==
    /\ SumPC = "return"
    /\ Result' = IF ReadCount < 0 THEN NullOpt ELSE Some(CRC32)
    /\ SumPC' = "returned"
    /\ UNCHANGED runVars
    /\ UNCHANGED <<FileAtPath, FileSize, FileHandle, FileMap, Buffer,
                   ReadCount, CRC32, Offset, Handles, Mappings, Closes>>

\* return CRC32.
ReturnCRC ==
    /\ SumPC = "return"
    /\ Result' = Some(CRC32)
    /\ SumPC' = "returned"
    /\ UNCHANGED runVars
    /\ UNCHANGED <<FileAtPath, FileSize, FileHandle, FileMap, Buffer,
                   ReadCount, CRC32, Offset, Handles, Mappings, Closes>>

(***************************************************************************)
(* Specifications.                                                         *)
(***************************************************************************)
ParseNext == OpenNext \/ GetLine

WorkerNext(w) ==
    \/ Claim(w) \/ Sum(w) \/ Report(w)
    \/ ThreadClaim(w) \/ ThreadSum(w) \/ ThreadReport(w)

MainNext == ParseNext \/ SpawnLoop \/ JoinLoop \/ HashSpawn \/ HashJoin

Next == MainNext \/ \E w \in 1..Threads : WorkerNext(w)

\* A whole run under every interleaving.
Spec == Init /\ [][Next]_vars

\* A whole run with every thread scheduled as long as it can take a step.
FairSpec ==
    /\ FairInit /\ [][Next]_vars
    /\ WF_vars(MainNext)
    /\ \A w \in 1..MaxThreads : WF_vars(w <= Threads /\ WorkerNext(w))

\* The checklist parser on every bounded input.
ParseSpec == ParseInit /\ [][ParseNext]_vars

SumNext ==
    \/ FileSizeQuery \/ OpenFile \/ MapFile \/ ChecksumSpan \/ Unmap
    \/ ReadChunk \/ ChecksumChunk \/ CloseFile \/ ReturnCRC

\* One call of ChecksumFile on every bounded file.
SumSpec == SumInit /\ [][SumNext]_vars

(***************************************************************************)
(* Vocabulary of the properties.                                           *)
(***************************************************************************)
\* The job list and the cursor of the mode the run is in.
JobCount == IF CheckMode THEN Len(Checkqueue) ELSE Len(FileList)

Cursor == IF CheckMode THEN QueueLock ELSE FileIndex

Workers == 1..Threads

\* The workers that are executing job index i: they claimed it and have
\* not yet printed its result.
Holders(i) ==
    {w \in Workers : WorkerPC[w] \in {"sum", "report"} /\ EntryIndex[w] = i}

Returned == MainPC = "returned"

AllExited == \A w \in Workers : WorkerPC[w] = "exited"

\* Some checklist still to be read cannot be opened.
HasUnopenable(files) == \E k \in 1..Len(files) : ~files[k].Openable

\* No worker was started and nothing was checksummed or printed.
NothingDispatched ==
    /\ NumWorkers = 0
    /\ \A w \in Workers : WorkerPC[w] = "unborn" /\ CurSum[w] = NullOpt
    /\ QueueLock = 0
    /\ Reported = <<>>

\* Some result line printed so far satisfies P.
SomeLine(P(_)) ==
    \E i \in DOMAIN Reported : \E k \in 1..Len(Reported[i]) : P(Reported[i][k])

(***************************************************************************)
(* C1.  Every job index in [0, N) is executed by exactly one worker        *)
(* exactly once, in check mode and in ChecksumThread: an index that has    *)
(* been claimed is either being executed by one worker or has one result   *)
(* line, an index not yet claimed has neither, no result line is printed   *)
(* for an index outside [0, N), and when the run has returned with at      *)
(* least one worker every index has exactly one result line.               *)
(***************************************************************************)
C1_ExactlyOnce ==
    /\ \A i \in DOMAIN Reported : i \in 0..(JobCount - 1)
    /\ \A i \in 0..(JobCount - 1) :
          Cardinality(Holders(i)) + Len(Lines(i))
             = IF i < Cursor THEN 1 ELSE 0
    /\ (Returned /\ Ret = EXIT_SUCCESS /\ Threads >= 1) =>
          \A i \in 0..(JobCount - 1) : Len(Lines(i)) = 1

\* A check-mode run has returned after two workers shared three entries.
C1_Witness ==
    /\ CheckMode /\ Returned /\ Threads = 2 /\ Len(Checkqueue) = 3
    /\ \A i \in 0..2 : Len(Lines(i)) = 1
    /\ Lines(0)[1].Worker /= Lines(2)[1].Worker

(***************************************************************************)
(* C2.  With every thread scheduled fairly, a run that reaches the worker  *)
(* pool has all its workers exit, and Check returns; a worker exits only   *)
(* by a claim that returns an index >= N, and once it has exited it claims *)
(* and prints nothing more; Check returns success only when every worker   *)
(* has exited and no job is claimed but unreported.                        *)
(***************************************************************************)
C2_WorkersExitBeforeReturn ==
    /\ (MainPC \in {"spawn", "hash"}) ~> AllExited
    /\ <>Returned
    /\ [](Returned /\ Ret = EXIT_SUCCESS =>
             AllExited /\ \A i \in 0..(JobCount - 1) : Holders(i) = {})
    /\ [][\A w \in Workers :
             /\ (WorkerPC[w] /= "exited" /\ WorkerPC'[w] = "exited") =>
                   /\ WorkerPC[w] = "claim"
                   /\ Cursor >= JobCount
                   /\ Cursor' = Cursor + 1
             /\ WorkerPC[w] = "exited" =>
                   /\ WorkerPC'[w] = "exited"
                   /\ \A i \in DOMAIN Reported' :
                         \A k \in 1..Len(Reported'[i]) :
                            Reported'[i][k].Worker = w =>
                               /\ i \in DOMAIN Reported
                               /\ k <= Len(Reported[i])]_vars

\* Check has returned from a run in which two workers exited after work.
C2_Witness ==
    /\ CheckMode /\ Returned /\ Ret = EXIT_SUCCESS /\ Threads = 2
    /\ AllExited /\ Len(Checkqueue) >= 2
    /\ SomeLine(LAMBDA l : l.Worker = 1) /\ SomeLine(LAMBDA l : l.Worker = 2)

(***************************************************************************)
(* C3.  Check with Threads = 0 and a non-empty list of entries does not    *)
(* return success.                                                         *)
(***************************************************************************)
C3_ZeroThreadsRejected ==
    (CheckMode /\ Threads = 0 /\ Checkqueue /= <<>> /\ Returned) =>
        Ret /= EXIT_SUCCESS

(***************************************************************************)
(* C4.  Every entry processed in check mode gets one result line, whose    *)
(* verdict is OK iff ChecksumFile returned the expected checksum, FAIL iff *)
(* it returned another value, and ERROR iff it returned no value; the      *)
(* value on the line is the one the file has on disk.                      *)
(***************************************************************************)
C4_Verdicts ==
    CheckMode =>
        \A i \in DOMAIN Reported :
            /\ Len(Reported[i]) = 1
            /\ LET line  == Reported[i][1]
                   entry == Checkqueue[i + 1]
                   file  == Disk[entry.FilePath]
               IN  /\ line.Path = entry.FilePath
                   /\ line.Expected = entry.Checksum
                   /\ line.Sum = IF file.kind = "data" THEN <<file.crc>>
                                                       ELSE <<>>
                   /\ line.Verdict \in {"OK", "FAIL", "ERROR"}
                   /\ line.Verdict = "OK" <=>
                         (line.Sum /= <<>> /\ line.Sum[1] = entry.Checksum)
                   /\ line.Verdict = "FAIL" <=>
                         (line.Sum /= <<>> /\ line.Sum[1] /= entry.Checksum)
                   /\ line.Verdict = "ERROR" <=> line.Sum = <<>>

\* One run printed FAIL for a file whose checksum differs from the expected
\* one, and ERROR for an unreadable file whose entry expects 0.
C4_Witness ==
    /\ CheckMode /\ Returned
    /\ SomeLine(LAMBDA l : l.Verdict = "FAIL" /\ l.Sum = Some(Zero32))
    /\ SomeLine(LAMBDA l : l.Verdict = "ERROR" /\ l.Expected = Zero32)

(***************************************************************************)
(* C5.  When a checklist cannot be opened, whether it is the first or      *)
(* comes after checklists that were parsed, nothing is dispatched: no      *)
(* worker is started, nothing is checksummed or printed, and Check         *)
(* returns a non-zero status.                                              *)
(***************************************************************************)
C5_UnopenableAborts ==
    (CheckMode /\ (OpenFailed \/ HasUnopenable(Pending))) =>
        /\ MainPC \in {"open", "read", "returned"}
        /\ NothingDispatched
        /\ Returned => (Ret /= NoStatus /\ Ret /= 0)

\* Check failed on a checklist that follows one whose entries were queued.
C5_Witness ==
    /\ CheckMode /\ Returned /\ Ret = EXIT_FAILURE /\ OpenFailed
    /\ Checkqueue /= <<>> /\ Threads >= 1 /\ Len(Pending) = 1

(***************************************************************************)
(* C6.  Check returns a non-zero status iff a checklist could not be       *)
(* opened; when all open it returns 0 once every worker has exited,        *)
(* whatever the verdicts and however many lines were discarded.            *)
(***************************************************************************)
C6_ExitStatus ==
    (CheckMode /\ Returned) =>
        /\ Ret \in {EXIT_SUCCESS, EXIT_FAILURE}
        /\ Ret /= 0 <=> OpenFailed
        /\ OpenFailed <=> HasUnopenable(Pending)
        /\ ~OpenFailed => (Ret = 0 /\ AllExited /\ Pending = <<>>)

\* Check returned 0 from a run that printed a FAIL and an ERROR.
C6_Witness ==
    /\ CheckMode /\ Returned /\ Ret = 0
    /\ SomeLine(LAMBDA l : l.Verdict = "FAIL")
    /\ SomeLine(LAMBDA l : l.Verdict = "ERROR")

(***************************************************************************)
(* Vocabulary of the properties of the parser, stated on the text of a     *)
(* line without the parser's own operators.                                *)
(***************************************************************************)
\* getline is about to return a line.
Reading == MainPC = "read" /\ Pending /= <<>> /\ Head(Pending).File /= <<>>

\* The line getline returns next, and the checklist it is read from.
TheLine == Head(Head(Pending).File)

TheSfv == Head(Pending).Path

CommentLine(line) == line /= <<>> /\ line[1] = ";"

HasSpace(line) == \E k \in 1..Len(line) : line[k] = " "

\* The 1-based position of the last space of a line that has one.
LastSpace(line) ==
    CHOOSE k \in 1..Len(line) :
        line[k] = " " /\ \A j \in (k + 1)..Len(line) : line[j] /= " "

BeforeLastSpace(line) == SubSeq(line, 1, LastSpace(line) - 1)

AfterLastSpace(line) == SubSeq(line, LastSpace(line) + 1, Len(line))

HexLower ==
    <<"0", "1", "2", "3", "4", "5", "6", "7", "8", "9",
      "a", "b", "c", "d", "e", "f">>

HexUpper ==
    <<"0", "1", "2", "3", "4", "5", "6", "7", "8", "9",
      "A", "B", "C", "D", "E", "F">>

IsHex(c) == \E v \in 1..16 : HexLower[v] = c \/ HexUpper[v] = c

HexValue(c) == (CHOOSE v \in 1..16 : HexLower[v] = c \/ HexUpper[v] = c) - 1

AllHex(s) == \A k \in 1..Len(s) : IsHex(s[k])

RECURSIVE Number(_)
\* The number that at most four hexadecimal digits write.
Number(s) ==
    IF s = <<>> THEN 0
    ELSE 16 * Number(SubSeq(s, 1, Len(s) - 1)) + HexValue(s[Len(s)])

\* The 32-bit number that one to eight hexadecimal digits write.
NumericValue(s) ==
    IF Len(s) <= 4 THEN U32(0, Number(s))
    ELSE U32(Number(SubSeq(s, 1, Len(s) - 4)),
             Number(SubSeq(s, Len(s) - 3, Len(s))))

\* s is, in its entirety, an unsigned 32-bit hexadecimal integer: one or
\* more hexadecimal digits, all but the last eight of them zeros.
ValidChecksum(s) ==
    /\ s /= <<>>
    /\ AllHex(s)
    /\ \A k \in 1..(Len(s) - 8) : s[k] = "0"

\* The directory entries of the checklist sfv resolve against.
BaseDir(sfv) ==
    IF \E k \in 1..Len(sfv) : sfv[k] = "/"
    THEN SubSeq(sfv, 1, (CHOOSE k \in 1..Len(sfv) :
                            sfv[k] = "/" /\
                            \A j \in (k + 1)..Len(sfv) : sfv[j] /= "/") - 1)
    ELSE <<".">>

\* The lines the checklist format accepts: not a comment, split at a
\* space, the checksum field valid.
WellFormed(line) ==
    /\ ~CommentLine(line)
    /\ HasSpace(line)
    /\ ValidChecksum(AfterLastSpace(line))

(***************************************************************************)
(* C7.  A non-comment line whose text after the last space is not, in its  *)
(* entirety, an unsigned 32-bit hexadecimal integer (empty, a character    *)
(* that is no digit, more than 32 bits, or digits followed by anything     *)
(* else) produces no entry.                                                *)
(***************************************************************************)
C7_BadChecksumDiscarded ==
    [][(/\ Reading
        /\ ~CommentLine(TheLine)
        /\ HasSpace(TheLine)
        /\ ~ValidChecksum(AfterLastSpace(TheLine)))
          => Checkqueue' = Checkqueue]_vars

(***************************************************************************)
(* C8.  A non-comment line without a space produces no entry, whatever     *)
(* its characters are.                                                     *)
(***************************************************************************)
C8_UnsplittableDiscarded ==
    [][(Reading /\ ~CommentLine(TheLine) /\ ~HasSpace(TheLine))
          => Checkqueue' = Checkqueue]_vars

(***************************************************************************)
(* C9.  A non-comment line with a space whose text after the last space is *)
(* one to eight hexadecimal digits of either case adds exactly one entry:  *)
(* its path is the checklist's directory joined with exactly the text      *)
(* before the last space, and its checksum is the number the digits write. *)
(***************************************************************************)
C9_ValidLineParsed ==
    [][(/\ Reading
        /\ ~CommentLine(TheLine)
        /\ HasSpace(TheLine)
        /\ Len(AfterLastSpace(TheLine)) \in 1..8
        /\ AllHex(AfterLastSpace(TheLine)))
          => Checkqueue' =
                Append(Checkqueue,
                       [FilePath |-> BaseDir(TheSfv) \o <<"/">>
                                        \o BeforeLastSpace(TheLine),
                        Checksum |-> NumericValue(AfterLastSpace(TheLine))])
       ]_vars

\* The parser queued the entry of a line "Z  A" or "Z  a" of a checklist in
\* the directory d: a path that ends in a space, and the checksum 0xA.
C9_Witness ==
    /\ MainPC = "spawn"
    /\ Checkqueue =
          <<[FilePath |-> <<"d", "/", "Z", " ">>, Checksum |-> U32(0, 10)]>>

(***************************************************************************)
(* C10.  The job list is the concatenation, over the checklists in the     *)
(* order given and over the lines of each in line order, of the entries    *)
(* the lines produce: every step of the parser leaves unchanged the queue  *)
(* followed by the entries of the lines still to be read.  A comment, or a *)
(* line with an invalid checksum, adds no entry, and the parser goes on    *)
(* with the lines and checklists after it.                                 *)
(***************************************************************************)
RECURSIVE FileEntries(_, _)
\* The entries the lines of the checklist sfv produce, in line order.
FileEntries(sfv, lines) ==
    IF lines = <<>> THEN <<>>
    ELSE LineEntries(sfv, Head(lines)) \o FileEntries(sfv, Tail(lines))

RECURSIVE PendingEntries(_)
\* The entries the lines still to be read produce, in the checklists' order.
PendingEntries(files) ==
    IF files = <<>> THEN <<>>
    ELSE FileEntries(Head(files).Path, Head(files).File)
            \o PendingEntries(Tail(files))

\* The queue grows by what each line read produces, in order.
QueueIsConcatenation ==
    /\ Checkqueue = <<>>
    /\ [][Checkqueue' \o PendingEntries(Pending')
             = Checkqueue \o PendingEntries(Pending)]_vars

\* The line about to be read is dropped and the parser reads on.
SkipsTheLine ==
    /\ Checkqueue' = Checkqueue
    /\ MainPC' = "read"
    /\ Pending' = <<[Head(Pending) EXCEPT !.File = Tail(@)]>> \o Tail(Pending)

\* A comment adds nothing and the parser reads on.
CommentsSkipped == [][(Reading /\ CommentLine(TheLine)) => SkipsTheLine]_vars

C10_JobListIsConcatenation ==
    /\ QueueIsConcatenation
    /\ CommentsSkipped
    /\ [][(/\ Reading
           /\ ~CommentLine(TheLine)
           /\ HasSpace(TheLine)
           /\ ~ValidChecksum(AfterLastSpace(TheLine))) => SkipsTheLine]_vars

\* The part of C10 that does not rest on which checksum fields are invalid:
\* concatenation in order, and comments skipped.
C10_ConcatenationInOrder == QueueIsConcatenation /\ CommentsSkipped

\* A checklist was read to its end past a comment and a bad checksum.
C10_TwoEntriesQueued ==
    /\ MainPC = "spawn"
    /\ Len(Checkqueue) = 2
    /\ Checkqueue[1].FilePath = <<"d", "/", "b">>
    /\ Checkqueue[2].FilePath = <<"d", "/", "a">>

(***************************************************************************)
(* C11.  The cursor starts at zero and stays there until a worker claims.  *)
(* Every step that changes the cursor is one claim by one worker: the      *)
(* worker receives the value the cursor had, and the cursor becomes that   *)
(* value plus one, so the values issued, in the order the claims take      *)
(* effect, are 0, 1, 2, ... with no gap and no value twice; the values two *)
(* workers hold while they execute jobs are distinct and below the cursor. *)
(* A claim made when the cursor is >= N ends the claiming worker, and a    *)
(* claim made below N does not.                                            *)
(***************************************************************************)
\* Worker w claims in this step.
Claims(w) == WorkerPC[w] = "claim" /\ WorkerPC'[w] /= "claim"

C11_ClaimsGapFree ==
    /\ [](NumWorkers = 0 => Cursor = 0)
    /\ [][/\ (Cursor' /= Cursor) =>
                (/\ Cursor' = Cursor + 1
                 /\ \E w \in Workers :
                       /\ Claims(w)
                       /\ EntryIndex'[w] = Cursor
                       /\ \A v \in Workers \ {w} :
                             /\ WorkerPC'[v] = WorkerPC[v]
                             /\ EntryIndex'[v] = EntryIndex[v])
          /\ \A w \in Workers :
                Claims(w) =>
                   /\ Cursor' = Cursor + 1
                   /\ EntryIndex'[w] = Cursor
                   /\ (Cursor >= JobCount) <=> (WorkerPC'[w] = "exited")]_vars
    /\ [](\A v, w \in Workers :
             (/\ v /= w
              /\ WorkerPC[v] \in {"sum", "report"}
              /\ WorkerPC[w] \in {"sum", "report"}) =>
                /\ EntryIndex[v] /= EntryIndex[w]
                /\ EntryIndex[v] < Cursor)

\* Two workers took the two jobs of a list and both left on a claim past
\* the end: the cursor has issued 0, 1, 2 and 3.
C11_Witness ==
    /\ CheckMode /\ Threads = 2 /\ Len(Checkqueue) = 2 /\ QueueLock = 4
    /\ AllExited
    /\ EntryIndex[1] /= EntryIndex[2]
    /\ Lines(0) /= <<>> /\ Lines(1) /= <<>>
    /\ Lines(0)[1].Worker /= Lines(1)[1].Worker

(***************************************************************************)
(* Vocabulary of the properties of one call of ChecksumFile.               *)
(***************************************************************************)
HasReturned == SumPC = "returned"

\* The size query and the open both succeed on the file.
Readable == FileAtPath.Sized /\ FileAtPath.Openable

\* How a call that has returned went.
SizeFailed == HasReturned /\ ~FileAtPath.Sized

OpenFailure == HasReturned /\ FileAtPath.Sized /\ ~FileAtPath.Openable

MappedPath == HasReturned /\ Readable /\ FileMap /= MAP_FAILED

FallbackPath == HasReturned /\ Readable /\ FileMap = MAP_FAILED

EndOfFile == FallbackPath /\ ReadCount = 0

ReadError == FallbackPath /\ ReadCount < 0

(***************************************************************************)
(* C12.  ChecksumFile leaks nothing: once it has returned, on whichever    *)
(* of its five exit paths, the process holds no open descriptor and no     *)
(* mapping; the descriptor was passed to close exactly once when the open  *)
(* succeeded and close was never called when it did not; close is only     *)
(* ever called on a descriptor that is open, and munmap only removes the   *)
(* mapping the call created.                                               *)
(***************************************************************************)
C12_NoLeak ==
    /\ [](HasReturned =>
             /\ SizeFailed \/ OpenFailure \/ MappedPath \/ EndOfFile
                \/ ReadError
             /\ Handles = {}
             /\ Mappings = {}
             /\ Closes = IF Readable THEN <<NewHandle>> ELSE <<>>)
    /\ [][/\ (Closes' /= Closes) =>
                (/\ FileHandle \in Handles
                 /\ Closes' = Append(Closes, FileHandle)
                 /\ Handles' = Handles \ {FileHandle})
          /\ (Mappings' /= Mappings) =>
                (\/ Mappings = {} /\ Mappings' = {<<FileMap', FileSize>>}
                 \/ Mappings = {<<FileMap, FileSize>>} /\ Mappings' = {})]_vars

\* The call has returned along the mapped path: the mapping is gone and the
\* descriptor was closed once.
C12_Witness ==
    /\ MappedPath
    /\ Mappings = {} /\ Handles = {} /\ Closes = <<NewHandle>>
    /\ FileSize > 0
    /\ Result = Some(CRC32)

(***************************************************************************)
(* C13.  The path of the reads returns what the mapped path returns: for   *)
(* every file contents and every way the reads split them into chunks,     *)
(* chaining the checksum over the chunks, each seeded with the running     *)
(* value from 0, gives the single-pass checksum of the whole contents.     *)
(* While the reads go on, the running value is the single-pass checksum of *)
(* the bytes consumed so far.                                              *)
(***************************************************************************)
\* The bytes of the file before position n.
Prefix(n) == SubSeq(FileAtPath.Bytes, 1, n)

\* The single-pass checksum of a byte sequence.
SinglePass(bytes) == Checksum(bytes, Zero32)

C13_ChainedEqualsSinglePass ==
    /\ MappedPath => Result = Some(SinglePass(FileAtPath.Bytes))
    /\ EndOfFile => Result = Some(SinglePass(FileAtPath.Bytes))
    /\ SumPC = "read" => CRC32 = SinglePass(Prefix(Offset))
    /\ (SumPC = "loop" /\ ReadCount > 0) =>
          /\ Buffer = SubSeq(FileAtPath.Bytes, Offset - ReadCount + 1, Offset)
          /\ CRC32 = SinglePass(Prefix(Offset - ReadCount))

\* The test vector "123456789" was read in several chunks, the last of four
\* bytes, and the call returned 0xCBF43926.
C13_Witness ==
    /\ EndOfFile
    /\ FileAtPath.Bytes = TestVector
    /\ Buffer = <<54, 55, 56, 57>>
    /\ Result = Some(U32(52212, 14630))

(***************************************************************************)
(* C16.  On an existing, openable file of length zero ChecksumFile returns *)
(* the value 0x00000000 and not the failure marker: the mapping of length  *)
(* 0 fails, the first read returns no bytes, and the initial checksum 0 is *)
(* returned after the descriptor is closed.                                *)
(***************************************************************************)
C16_EmptyFileIsZero ==
    (HasReturned /\ Readable /\ FileAtPath.Bytes = <<>>) =>
       /\ Result = Some(Zero32)
       /\ HasValue(Result)
       /\ FileMap = MAP_FAILED
       /\ ReadCount <= 0 /\ Offset = 0 /\ Buffer = <<>>
       /\ Closes = <<NewHandle>> /\ Handles = {}

\* The call has returned 0 for an empty file on which mmap is available.
C16_Witness ==
    /\ EndOfFile
    /\ FileAtPath.Bytes = <<>> /\ FileAtPath.Mappable
    /\ Result = Some(Zero32)

(***************************************************************************)
(* C18.  ChecksumFile returns the failure marker exactly when the size     *)
(* query or the open fails.  When a read fails on the path of the reads,   *)
(* the call returns a value: the chained checksum of the bytes read before *)
(* the error; for a value the caller's verdict is OK or FAIL, whatever the *)
(* expected checksum, never ERROR.                                         *)
(***************************************************************************)
\* Checksums an entry may expect.
ExpectedSums == {Zero32, AllOnes, CRC32}

C18_FailureOnlySizeOrOpen ==
    /\ HasReturned => (Result = NullOpt <=> ~Readable)
    /\ ReadError =>
          /\ Result = Some(SinglePass(Prefix(Offset)))
          /\ \A expected \in ExpectedSums :
                Verdict(CheckEntry(<<>>, expected), Result) \in {"OK", "FAIL"}
    /\ (HasReturned /\ Readable) =>
          /\ Verdict(CheckEntry(<<>>, CRC32), Result) = "OK"
          /\ Verdict(CheckEntry(<<>>, Not32(CRC32)), Result) = "FAIL"

\* A read failed after part of the file was consumed, and the call returned
\* the checksum of that part, which is not the checksum of the file.
C18_Witness ==
    /\ ReadError
    /\ Offset > 0 /\ Offset < Len(FileAtPath.Bytes)
    /\ Result = Some(CRC32)
    /\ CRC32 /= SinglePass(FileAtPath.Bytes)

(***************************************************************************)
(* C14.  A file that cannot be checksummed fails its own job only.  A      *)
(* worker that got no result for index i prints one ERROR line for i and   *)
(* goes back to claiming; an index that is being executed has no line yet, *)
(* and no index ever has two lines, so nothing is retried.  With every     *)
(* thread scheduled fairly, a run in which some job got no result returns, *)
(* and by then every index in [0, N) has exactly one line, which says      *)
(* ERROR exactly when the entry's file cannot be checksummed.              *)
(***************************************************************************)
\* The path of job i.
JobPath(i) ==
    IF CheckMode THEN Checkqueue[i + 1].FilePath ELSE FileList[i + 1]

\* Worker w holds a job for which ChecksumFile returned no result.
GotNoResult(w) == WorkerPC[w] = "report" /\ ~HasValue(CurSum[w])

\* Every index has one line, ERROR for the unreadable files and only them.
AllReportedOnce ==
    \A i \in 0..(JobCount - 1) :
       /\ Len(Lines(i)) = 1
       /\ (Lines(i)[1].Verdict = "ERROR")
             <=> (ChecksumFile(Disk, JobPath(i)) = NullOpt)

C14_FailureIsLocal ==
    /\ [][\A w \in Workers :
             (GotNoResult(w) /\ WorkerPC'[w] /= "report") =>
                 /\ WorkerPC'[w] = "claim"
                 /\ EntryIndex[w] \in DOMAIN Reported'
                 /\ Len(Reported'[EntryIndex[w]]) = 1
                 /\ Reported'[EntryIndex[w]][1].Verdict = "ERROR"
                 /\ Reported'[EntryIndex[w]][1].Worker = w
                 /\ \A i \in DOMAIN Reported :
                       i /= EntryIndex[w] => Reported'[i] = Reported[i]]_vars
    /\ [](\A i \in 0..(JobCount - 1) :
             /\ Len(Lines(i)) <= 1
             /\ Holders(i) /= {} => Lines(i) = <<>>)
    /\ (\E w \in Workers : GotNoResult(w)) ~> (Returned /\ AllReportedOnce)

\* One worker of two printed ERROR for index 0 and then the result of
\* index 1; the run has returned with all three entries reported.
C14_Witness ==
    /\ CheckMode /\ Returned /\ Threads = 2 /\ Len(Checkqueue) = 3
    /\ AllReportedOnce
    /\ Lines(0)[1].Verdict = "ERROR"
    /\ Lines(1)[1].Verdict = "FAIL"
    /\ Lines(0)[1].Worker = Lines(1)[1].Worker

(***************************************************************************)
(* C15.  The path of an entry is made of the checklist's path and of the   *)
(* line's relative path alone, whatever was read before: the parent        *)
(* directory of the checklist joined with the relative path when the       *)
(* checklist path has a parent directory, for instance "/data/photo.jpg"   *)
(* with 0x1A2B3C4D for the line "photo.jpg 1A2B3C4D" of "/data/list.sfv";  *)
(* and, when the checklist path is bare, "." joined with the relative      *)
(* path, "./photo.jpg", which names the relative path in the current       *)
(* directory.                                                              *)
(***************************************************************************)
\* A step of the parser that queues an entry for a line with a path field.
QueuesEntry ==
    /\ Reading /\ HasSpace(TheLine)
    /\ Len(Checkqueue') = Len(Checkqueue) + 1

\* The entry such a step queues.
NewEntry == Checkqueue'[Len(Checkqueue')]

HasDir(sfv) == \E k \in 1..Len(sfv) : sfv[k] = "/"

LastSlash(sfv) ==
    CHOOSE k \in 1..Len(sfv) :
       sfv[k] = "/" /\ \A j \in (k + 1)..Len(sfv) : sfv[j] /= "/"

\* The parent directory of a checklist path that has one: the text before
\* the last separator, or the root.
DirOf(sfv) ==
    IF LastSlash(sfv) = 1 THEN <<"/">> ELSE SubSeq(sfv, 1, LastSlash(sfv) - 1)

\* A directory joined with a relative path.
JoinPath(dir, rel) ==
    IF dir[Len(dir)] = "/" THEN dir \o rel ELSE dir \o <<"/">> \o rel

\* The claim as stated: under a bare checklist the path is the relative
\* path itself.
C15_ResolvedPathAsStated ==
    [][QueuesEntry =>
          NewEntry.FilePath =
             IF HasDir(TheSfv)
             THEN JoinPath(DirOf(TheSfv), BeforeLastSpace(TheLine))
             ELSE BeforeLastSpace(TheLine)]_vars

C15_ResolvedPath ==
    [][QueuesEntry =>
          /\ Checkqueue' = Append(Checkqueue, NewEntry)
          /\ NewEntry.FilePath =
                IF HasDir(TheSfv)
                THEN JoinPath(DirOf(TheSfv), BeforeLastSpace(TheLine))
                ELSE JoinPath(<<".">>, BeforeLastSpace(TheLine))]_vars

\* "/data/photo.jpg".
ExamplePath ==
    <<"/", "d", "a", "t", "a", "/", "p", "h", "o", "t", "o", ".", "j", "p",
      "g">>

\* After a line of a bare checklist, the line "photo.jpg 1A2B3C4D" of
\* "/data/list.sfv" has queued "/data/photo.jpg" with 0x1A2B3C4D.
C15_Witness ==
    /\ Len(Checkqueue) = 2
    /\ Checkqueue[1].FilePath = <<".", "/", "p">>
    /\ Checkqueue[2] =
          [FilePath |-> ExamplePath, Checksum |-> U32(6699, 15437)]

(***************************************************************************)
(* C17.  The cursor never exceeds N + T, and once all T workers have       *)
(* exited it is exactly N + T: N claims in range and one claim out of      *)
(* range by each worker.                                                   *)
(***************************************************************************)
\* The workers that have left their loop.
Exited == {w \in Workers : WorkerPC[w] = "exited"}

\* The pool is over: every worker was started and has exited.
PoolDone ==
    /\ MainPC \in {"join", "hashjoin", "returned"}
    /\ ~OpenFailed
    /\ AllExited

C17_CursorBound ==
    /\ Cursor <= JobCount + Threads
    /\ PoolDone => Cursor = JobCount + Threads

\* The part that holds of the pool whatever T is: the cursor counts the
\* claims made, which are the indices issued in range and one claim out of
\* range by each worker that has exited.
C17_CursorCountsClaims ==
    /\ Cursor <= JobCount + Threads
    /\ Exited = {} => Cursor <= JobCount
    /\ Exited /= {} => Cursor = JobCount + Cardinality(Exited)
    /\ (PoolDone /\ Threads >= 1) => Cursor = JobCount + Threads

\* Two workers have exited after three jobs: the cursor stands at five.
C17_TwoWorkersDone ==
    /\ PoolDone /\ Threads = 2 /\ JobCount = 3 /\ Cursor = 5

(***************************************************************************)
(* C19.  With the files fixed, what a check run reports is determined by   *)
(* the entries and their files alone.  Whatever the worker count T >= 1,   *)
(* whichever worker claims an entry and in whatever order the jobs         *)
(* complete, the result reported for entry i is the checksum of the file   *)
(* of entry i and the verdict that checksum and the entry's expected value *)
(* give; and when the run has returned, the set of (index, verdict,        *)
(* checksum) results is exactly that result for every i in [0, N).  Any    *)
(* two runs on the same checklists and files thus report the same set.     *)
(***************************************************************************)
\* The checksum of the file of entry i, if it can be read.
SumOf(i) ==
    LET path == Checkqueue[i + 1].FilePath
    IN  IF path \in DOMAIN Disk /\ Disk[path].kind = "data"
        THEN <<Disk[path].crc>> ELSE <<>>

\* The verdict entry i and its file determine.
VerdictOf(i) ==
    IF SumOf(i) = <<>> THEN "ERROR"
    ELSE IF SumOf(i)[1] = Checkqueue[i + 1].Checksum THEN "OK" ELSE "FAIL"

\* The results the run has reported so far.
ResultSet ==
    UNION {{<<i, Reported[i][k].Verdict, Reported[i][k].Sum>> :
               k \in 1..Len(Reported[i])} : i \in DOMAIN Reported}

\* The results the entries and the files determine.
DeterminedSet == {<<i, VerdictOf(i), SumOf(i)>> : i \in 0..(JobCount - 1)}

C19_ResultsDetermined ==
    CheckMode =>
       /\ MainPC \in {"spawn", "join", "returned"} =>
             ResultSet \subseteq DeterminedSet
       /\ (Returned /\ ~OpenFailed /\ Threads >= 1) =>
             ResultSet = DeterminedSet

\* Two workers finished three entries, the first and the last by different
\* workers and with different results, and the reported set is the
\* determined one.
C19_Witness ==
    /\ CheckMode /\ Returned /\ Threads = 2 /\ Len(Checkqueue) = 3
    /\ ResultSet = DeterminedSet
    /\ Lines(0)[1].Worker = 2 /\ Lines(1)[1].Worker = 1
    /\ Lines(2)[1].Worker = 2
    /\ VerdictOf(0) /= VerdictOf(1)

=============================================================================
